---- MODULE Spec2Model ----
(***************************************************************************)
(* Model of pdf_chat_app.py: the Streamlit "Chat with PDFs" application.   *)
(*                                                                         *)
(* A session is one browser session of the app: its st.session_state       *)
(* (conversation, chat_history, processed) and the position of its script  *)
(* run.  The Pinecone service is shared by all sessions: the index         *)
(* "pdf-chat-index" exists or not, and is ready for writes or not.         *)
(* The "Process Documents" branch of main() is modelled one external call  *)
(* per step, so that the calls of two sessions interleave; a question is   *)
(* handled by handle_userinput in one step.                                *)
(***************************************************************************)
EXTENDS Integers, Sequences, FiniteSets, TLC

\* ------------------------------------------------------------------ bounds

\* "Process Documents" clicks that start an ingest, over all sessions.
MaxIngests == 2
\* Questions submitted, over all sessions.
MaxAsks == 2

Sessions == {"s1", "s2"}
Questions == {"q1", "q2"}
NoQuestion == "none"

VARIABLES
    pc,            \* per session: where the session's script run stands
    conversation,  \* st.session_state.conversation: 0 is None, k > 0 the chain built by the session's k-th ingest
    chat_history,  \* st.session_state.chat_history: the displayed (question, answer) turns
    processed,     \* st.session_state.processed
    memory,        \* the ConversationBufferMemory held by the session's current chain
    pending,       \* a question submitted while the script was running (a queued rerun)
    ingests,       \* per session: ingests started
    asks,          \* per session: questions handled or queued
    ingestsOk,     \* per session: ingests that completed successfully
    last,          \* per session: the outcome of the last operation, as shown to the user
    indexExists,   \* Pinecone: "pdf-chat-index" is listed
    indexReady,    \* Pinecone: the index accepts writes
    createCalls,   \* pc.create_index invocations
    createOk,      \* pc.create_index invocations that created the index
    earlyWrites,   \* from_texts calls issued while the index was not ready
    text,          \* get_text_chunks: the text being split
    cpc,           \* get_text_chunks: where the splitter stands
    stack,         \* the calls of _split_text in progress, innermost last
    mj,            \* _merge_splits: the index of the split d being added
    mlo,           \* _merge_splits: the index of current_doc's first split
    mtotal,        \* _merge_splits: total, the length of current_doc
    chunks         \* the chunks produced so far, each <<first offset, end offset>>

sessionVars == <<pc, conversation, chat_history, processed, memory, pending,
                 ingests, asks, ingestsOk, last>>
serviceVars == <<indexExists, indexReady, createCalls, createOk, earlyWrites>>
chunkVars == <<text, cpc, stack, mj, mlo, mtotal, chunks>>
vars == <<sessionVars, serviceVars, chunkVars>>

Total(f) == f["s1"] + f["s2"]

NoOp == [op |-> "none", result |-> "none", cause |-> "none", attempts |-> 0,
         inflight |-> FALSE]

\* The outcome of an ingest: st.success (line 175) or st.error (line 177).
IngestOutcome(result, cause, attempts) ==
    [op |-> "ingest", result |-> result, cause |-> cause, attempts |-> attempts,
     inflight |-> FALSE]

\* The outcome of handle_userinput: the warning of line 117, the answer
\* displayed by lines 127-131, or the exception raised by line 120.
AskOutcome(result, attempts, inflight) ==
    [op |-> "ask", result |-> result, cause |-> "none", attempts |-> attempts,
     inflight |-> inflight]

\* ------------------------------------------------------------------- ingest

\* except Exception (lines 176-177): the error is displayed, the script run
\* ends, and session_state is as it was.
IngestFails(s, cause) ==
    /\ pc' = [pc EXCEPT ![s] = "idle"]
    /\ last' = [last EXCEPT ![s] = IngestOutcome("Failed", cause, 1)]
    /\ UNCHANGED <<conversation, chat_history, processed, memory, pending,
                   ingests, asks, ingestsOk>>

\* ProcessDocuments with the readiness flag raised when the ingest starts
\* instead of when it has succeeded.
ProcessDocumentsMarksProcessed(s, keys, docs) ==
    /\ pc[s] = "idle"
    /\ pending[s] = NoQuestion
    /\ Total(ingests) < MaxIngests
    /\ IF ~keys \/ ~docs
         THEN /\ last' = [last EXCEPT ![s] = IngestOutcome("Rejected", "input", 0)]
              /\ UNCHANGED <<pc, ingests, processed>>
         ELSE /\ pc' = [pc EXCEPT ![s] = "extract"]
              /\ ingests' = [ingests EXCEPT ![s] = @ + 1]
              /\ processed' = [processed EXCEPT ![s] = TRUE]
              /\ UNCHANGED last
    /\ UNCHANGED <<conversation, chat_history, memory, pending, asks, ingestsOk>>
    /\ UNCHANGED <<serviceVars, chunkVars>>

\* The "Process Documents" button (lines 153-159).
ProcessDocuments(s, keys, docs) ==
    /\ pc[s] = "idle"
    /\ pending[s] = NoQuestion
    /\ Total(ingests) < MaxIngests
    /\ IF ~keys \/ ~docs
         THEN /\ last' = [last EXCEPT ![s] = IngestOutcome("Rejected", "input", 0)]
              /\ UNCHANGED <<pc, ingests>>
         ELSE /\ pc' = [pc EXCEPT ![s] = "extract"]
              /\ ingests' = [ingests EXCEPT ![s] = @ + 1]
              /\ UNCHANGED last
    /\ UNCHANGED <<conversation, chat_history, processed, memory, pending, asks,
                   ingestsOk>>
    /\ UNCHANGED <<serviceVars, chunkVars>>

\* raw_text = get_pdf_text(pdf_docs) (line 162).
get_pdf_text(s, ok) ==
    /\ pc[s] = "extract"
    /\ IF ok
         THEN /\ pc' = [pc EXCEPT ![s] = "chunk"]
              /\ UNCHANGED <<conversation, chat_history, processed, memory,
                             pending, ingests, asks, ingestsOk, last>>
         ELSE IngestFails(s, "extract")
    /\ UNCHANGED <<serviceVars, chunkVars>>

\* text_chunks = get_text_chunks(raw_text); st.info(...) (lines 165-166).
\* st.info is the point where a script with a queued rerun is stopped: the
\* ingest is then abandoned and session_state is as it was.
get_text_chunks(s, ok, stop) ==
    /\ pc[s] = "chunk"
    /\ IF ~ok
         THEN IngestFails(s, "chunk")
         ELSE /\ pc' = [pc EXCEPT ![s] =
                    IF pending[s] # NoQuestion /\ stop THEN "idle" ELSE "list"]
              /\ UNCHANGED <<conversation, chat_history, processed, memory,
                             pending, ingests, asks, ingestsOk, last>>
    /\ UNCHANGED <<serviceVars, chunkVars>>

\* list_indexes without the membership test of line 63: create_index is
\* called whether or not the name is listed.
list_indexes_unchecked(s, ok) ==
    /\ pc[s] = "list"
    /\ IF ok
         THEN /\ pc' = [pc EXCEPT ![s] = "create"]
              /\ UNCHANGED <<conversation, chat_history, processed, memory,
                             pending, ingests, asks, ingestsOk, last>>
         ELSE IngestFails(s, "list")
    /\ UNCHANGED <<serviceVars, chunkVars>>

\* existing_indexes = [index.name for index in pc.list_indexes()] and the
\* test of line 63.
list_indexes(s, ok) ==
    /\ pc[s] = "list"
    /\ IF ok
         THEN /\ pc' = [pc EXCEPT ![s] = IF indexExists THEN "upsert" ELSE "create"]
              /\ UNCHANGED <<conversation, chat_history, processed, memory,
                             pending, ingests, asks, ingestsOk, last>>
         ELSE IngestFails(s, "list")
    /\ UNCHANGED <<serviceVars, chunkVars>>

\* pc.create_index(...) (lines 64-72).  The service refuses to create an
\* index whose name is taken: the call raises, and main() reports the ingest
\* as failed.
create_index(s, ok) ==
    /\ pc[s] = "create"
    /\ createCalls' = createCalls + 1
    /\ IF indexExists
         THEN /\ IngestFails(s, "AlreadyExists")
              /\ UNCHANGED <<indexExists, indexReady, createOk>>
         ELSE IF ok
           THEN /\ indexExists' = TRUE
                /\ indexReady' = FALSE
                /\ createOk' = createOk + 1
                /\ pc' = [pc EXCEPT ![s] = "sleep"]
                /\ UNCHANGED <<conversation, chat_history, processed, memory,
                               pending, ingests, asks, ingestsOk, last>>
           ELSE /\ IngestFails(s, "create")
                /\ UNCHANGED <<indexExists, indexReady, createOk>>
    /\ UNCHANGED <<earlyWrites, chunkVars>>

\* time.sleep(1) (line 74).
sleep(s) ==
    /\ pc[s] = "sleep"
    /\ pc' = [pc EXCEPT ![s] = "upsert"]
    /\ UNCHANGED <<conversation, chat_history, processed, memory, pending,
                   ingests, asks, ingestsOk, last>>
    /\ UNCHANGED <<serviceVars, chunkVars>>

\* The service finishes creating the index, after a delay of its own.
IndexBecomesReady ==
    /\ indexExists
    /\ ~indexReady
    /\ indexReady' = TRUE
    /\ UNCHANGED <<indexExists, createCalls, createOk, earlyWrites>>
    /\ UNCHANGED <<sessionVars, chunkVars>>

\* PineconeVectorStore.from_texts(...) (lines 77-84): embeds the chunks and
\* writes them to the index.
from_texts(s, ok) ==
    /\ pc[s] = "upsert"
    /\ earlyWrites' = IF indexReady THEN earlyWrites ELSE earlyWrites + 1
    /\ IF ok
         THEN /\ pc' = [pc EXCEPT ![s] = "chain"]
              /\ UNCHANGED <<conversation, chat_history, processed, memory,
                             pending, ingests, asks, ingestsOk, last>>
         ELSE IngestFails(s, "upsert")
    /\ UNCHANGED <<indexExists, indexReady, createCalls, createOk, chunkVars>>

\* st.session_state.conversation = get_conversation_chain(...);
\* st.session_state.processed = True; st.success(...) (lines 172-175).
\* The chain is built around a new, empty ConversationBufferMemory (line 99).
get_conversation_chain(s, ok) ==
    /\ pc[s] = "chain"
    /\ IF ok
         THEN /\ conversation' = [conversation EXCEPT ![s] = ingests[s]]
              /\ memory' = [memory EXCEPT ![s] = <<>>]
              /\ processed' = [processed EXCEPT ![s] = TRUE]
              /\ pc' = [pc EXCEPT ![s] = "idle"]
              /\ ingestsOk' = [ingestsOk EXCEPT ![s] = @ + 1]
              /\ last' = [last EXCEPT ![s] = IngestOutcome("Ok", "none", 1)]
              /\ UNCHANGED <<chat_history, pending, ingests, asks>>
         ELSE IngestFails(s, "chain")
    /\ UNCHANGED <<serviceVars, chunkVars>>

\* ---------------------------------------------------------------------- ask

\* handle_userinput without the guard of lines 116-118: calling None raises.
handle_userinput_unguarded(s, q, ok, inflight) ==
    /\ asks' = [asks EXCEPT ![s] = @ + 1]
    /\ IF conversation[s] # 0 /\ ok
         THEN /\ memory' = [memory EXCEPT ![s] = Append(@, <<q, conversation[s]>>)]
              /\ chat_history' = [chat_history EXCEPT ![s] =
                                      Append(@, <<q, conversation[s]>>)]
              /\ last' = [last EXCEPT ![s] = AskOutcome("Answered", 1, inflight)]
         ELSE /\ last' = [last EXCEPT ![s] = AskOutcome("GenerationFailed", 1, inflight)]
              /\ UNCHANGED <<chat_history, memory>>
    /\ UNCHANGED <<pc, conversation, processed, ingests, ingestsOk>>

\* handle_userinput recording the question before the chain is called, and
\* the answer after: a call that raises leaves the turn behind.
handle_userinput_append_first(s, q, ok, inflight) ==
    /\ asks' = [asks EXCEPT ![s] = @ + 1]
    /\ IF conversation[s] = 0
         THEN /\ last' = [last EXCEPT ![s] = AskOutcome("NotReady", 0, inflight)]
              /\ UNCHANGED <<chat_history, memory>>
         ELSE /\ chat_history' = [chat_history EXCEPT ![s] =
                                      Append(@, <<q, conversation[s]>>)]
              /\ IF ok
                   THEN /\ memory' = [memory EXCEPT ![s] =
                                          Append(@, <<q, conversation[s]>>)]
                        /\ last' = [last EXCEPT ![s] = AskOutcome("Answered", 1, inflight)]
                   ELSE /\ last' = [last EXCEPT ![s] =
                                        AskOutcome("GenerationFailed", 1, inflight)]
                        /\ UNCHANGED memory
    /\ UNCHANGED <<pc, conversation, processed, ingests, ingestsOk>>

\* handle_userinput calling the chain a second time when the first call
\* raises.
handle_userinput_retry_once(s, q, ok, inflight) ==
    /\ asks' = [asks EXCEPT ![s] = @ + 1]
    /\ IF conversation[s] = 0
         THEN /\ last' = [last EXCEPT ![s] = AskOutcome("NotReady", 0, inflight)]
              /\ UNCHANGED <<chat_history, memory>>
         ELSE \E again \in BOOLEAN :
                IF ok \/ again
                  THEN /\ memory' = [memory EXCEPT ![s] =
                                         Append(@, <<q, conversation[s]>>)]
                       /\ chat_history' = [chat_history EXCEPT ![s] =
                                               Append(@, <<q, conversation[s]>>)]
                       /\ last' = [last EXCEPT ![s] =
                                       AskOutcome("Answered", IF ok THEN 1 ELSE 2, inflight)]
                  ELSE /\ last' = [last EXCEPT ![s] =
                                       AskOutcome("GenerationFailed", 2, inflight)]
                       /\ UNCHANGED <<chat_history, memory>>
    /\ UNCHANGED <<pc, conversation, processed, ingests, ingestsOk>>

\* handle_userinput(user_question) (lines 114-131).  The chain saves the
\* turn to its memory when its call returns; a call that raises saves
\* nothing, and the exception leaves handle_userinput before line 121.
handle_userinput(s, q, ok, inflight) ==
    /\ asks' = [asks EXCEPT ![s] = @ + 1]
    /\ IF conversation[s] = 0
         THEN /\ last' = [last EXCEPT ![s] = AskOutcome("NotReady", 0, inflight)]
              /\ UNCHANGED <<chat_history, memory>>
         ELSE IF ok
           THEN /\ memory' = [memory EXCEPT ![s] = Append(@, <<q, conversation[s]>>)]
                /\ chat_history' = [chat_history EXCEPT ![s] =
                                        Append(@, <<q, conversation[s]>>)]
                /\ last' = [last EXCEPT ![s] = AskOutcome("Answered", 1, inflight)]
           ELSE /\ last' = [last EXCEPT ![s] = AskOutcome("GenerationFailed", 1, inflight)]
                /\ UNCHANGED <<chat_history, memory>>
    /\ UNCHANGED <<pc, conversation, processed, ingests, ingestsOk>>

\* st.chat_input returns a question while no script of the session runs
\* (lines 196-199).
Ask(s, q, ok) ==
    /\ pc[s] = "idle"
    /\ pending[s] = NoQuestion
    /\ Total(asks) < MaxAsks
    /\ handle_userinput(s, q, ok, FALSE)
    /\ UNCHANGED pending
    /\ UNCHANGED <<serviceVars, chunkVars>>

\* The user submits a question while the session's script is processing
\* documents: the rerun is queued.
SubmitWhileRunning(s, q) ==
    /\ pc[s] # "idle"
    /\ pending[s] = NoQuestion
    /\ Total(asks) < MaxAsks
    /\ pending' = [pending EXCEPT ![s] = q]
    /\ UNCHANGED <<pc, conversation, chat_history, processed, memory, ingests,
                   asks, ingestsOk, last>>
    /\ UNCHANGED <<serviceVars, chunkVars>>

\* The queued rerun: main() runs again with the question, once the script
\* that was running has ended or was stopped.
RunPending(s, ok) ==
    /\ pc[s] = "idle"
    /\ pending[s] # NoQuestion
    /\ handle_userinput(s, pending[s], ok, TRUE)
    /\ pending' = [pending EXCEPT ![s] = NoQuestion]
    /\ UNCHANGED <<serviceVars, chunkVars>>

\* ----------------------------------------------------------------- chunker
\* get_text_chunks (lines 36-48): RecursiveCharacterTextSplitter.split_text
\* with the configuration of lines 41-46 (keep_separator and
\* strip_whitespace at their defaults, True).  A text is a sequence of
\* tokens: a newline, a space, or a word of len characters other than these.
\* A piece of the text is written <<a, b>>: the characters at offsets a..b-1.

chunk_size == 1000
chunk_overlap == 200
separators == <<"\n\n", "\n", " ", "">>

\* Words per text.
MaxWords == 3
WordLens == {150, 600, 1100}

Word(n) == [kind |-> "w", len |-> n]
NL == [kind |-> "\n", len |-> 1]
SP == [kind |-> " ", len |-> 1]
Breaks == {<<NL, NL>>, <<NL>>, <<SP>>}

RECURSIVE TextsOf(_)
TextsOf(k) ==
    IF k = 1
      THEN {<<Word(n)>> : n \in WordLens}
      ELSE {t \o br \o <<Word(n)>> : t \in TextsOf(k - 1), br \in Breaks, n \in WordLens}

Texts == {<<>>} \cup UNION {TextsOf(k) : k \in 1..MaxWords}

\* The offset of token i of the text (of its end, for i = Len(text) + 1).
RECURSIVE TokStart(_)
TokStart(i) == IF i = 1 THEN 0 ELSE TokStart(i - 1) + text[i - 1].len

TextLen == TokStart(Len(text) + 1)

CharsOf(kind) == {TokStart(i) : i \in {j \in 1..Len(text) : text[j].kind = kind}}

\* Newlines directly before offset p.
RECURSIVE RunBefore(_)
RunBefore(p) == IF (p - 1) \in CharsOf("\n") THEN 1 + RunBefore(p - 1) ELSE 0

SepLen(l) == IF l = 1 THEN 2 ELSE IF l = 4 THEN 0 ELSE 1

\* Where separators[l] matches in the text, leftmost matches first and
\* without overlap (re.split, re.search).
MatchStarts(l) ==
    IF l = 1
      THEN {p \in CharsOf("\n") : (p + 1) \in CharsOf("\n") /\ RunBefore(p) % 2 = 0}
      ELSE IF l = 2 THEN CharsOf("\n")
      ELSE IF l = 3 THEN CharsOf(" ")
      ELSE {}

Found(a, b, l) == \E p \in MatchStarts(l) : a <= p /\ p + SepLen(l) <= b

\* _split_text: the first of separators[from..] found in the piece, "" if
\* none is.
ChooseSeparator(a, b, from) ==
    IF \E l \in from..3 : Found(a, b, l)
      THEN CHOOSE l \in from..3 : Found(a, b, l) /\ \A m \in from..(l - 1) : ~Found(a, b, m)
      ELSE 4

\* _split_text_with_regex with keep_separator=True: the piece is cut before
\* every match, each separator staying at the head of the split after it,
\* and empty splits are dropped; with "" the splits are the characters.
Cuts(a, b, l) == {p \in MatchStarts(l) : a < p /\ p + SepLen(l) <= b}

NumSplits(a, b, l) == IF l = 4 THEN b - a ELSE Cardinality(Cuts(a, b, l)) + 1

Bound(a, b, l, k) ==
    IF l = 4
      THEN a + k - 1
      ELSE LET B == {a, b} \cup Cuts(a, b, l)
           IN  CHOOSE p \in B : Cardinality({r \in B : r < p}) = k - 1

SplitAt(f, k) == <<Bound(f.a, f.b, f.sep, k), Bound(f.a, f.b, f.sep, k + 1)>>

PieceLen(s) == s[2] - s[1]

IsWhitespace(p) == p \in CharsOf("\n") \cup CharsOf(" ")

RECURSIVE StripLeft(_, _)
StripLeft(a, b) == IF a < b /\ IsWhitespace(a) THEN StripLeft(a + 1, b) ELSE a

RECURSIVE StripRight(_, _)
StripRight(a, b) == IF a < b /\ IsWhitespace(b - 1) THEN StripRight(a, b - 1) ELSE b

NoDoc == <<-1, -1>>

\* _join_docs: the splits lo..hi of the call joined and stripped; None when
\* nothing is left.
join_docs(f, lo, hi) ==
    IF lo > hi
      THEN NoDoc
      ELSE LET a == Bound(f.a, f.b, f.sep, lo)
               b == Bound(f.a, f.b, f.sep, hi + 1)
               sa == StripLeft(a, b)
           IN  IF sa >= b THEN NoDoc ELSE <<sa, StripRight(sa, b)>>

Emit(docs, doc) == IF doc = NoDoc THEN docs ELSE Append(docs, doc)

\* The test of the while loop of _merge_splits, with a third more to
\* remove: current_doc is cut down to what fits beside d, not to the overlap.
KeepPoppingUntilFits(total, len) ==
    \/ total > chunk_size
    \/ (total + len > chunk_size /\ total > 0)

\* The test of the while loop of _merge_splits: current_doc loses its first
\* split while it is longer than the overlap, or would not fit with d.
KeepPopping(total, len) ==
    \/ total > chunk_overlap
    \/ (total + len > chunk_size /\ total > 0)

Top == stack[Len(stack)]
SetTop(f) == [stack EXCEPT ![Len(stack)] = f]
Call(a, b, from) == [a |-> a, b |-> b, sep |-> ChooseSeparator(a, b, from), i |-> 1, g0 |-> 1]

\* split_text(text): the outermost call of _split_text.
split_text ==
    /\ cpc = "start"
    /\ stack' = <<Call(0, TextLen, 1)>>
    /\ cpc' = "split"
    /\ UNCHANGED <<text, mj, mlo, mtotal, chunks>>
    /\ UNCHANGED <<sessionVars, serviceVars>>

\* One turn of the loop "for s in splits" of _split_text, or its end.  The
\* splits g0..i-1 of the call are its _good_splits.
split_text_step ==
    /\ cpc = "split"
    /\ LET f == Top
           more == f.i <= NumSplits(f.a, f.b, f.sep)
           s == SplitAt(f, f.i)
       IN  IF more /\ PieceLen(s) < chunk_size
             THEN \* _good_splits.append(s)
                  /\ stack' = SetTop([f EXCEPT !.i = @ + 1])
                  /\ UNCHANGED <<cpc, mj, mlo, mtotal, chunks>>
             ELSE IF f.g0 < f.i
               THEN \* _merge_splits(_good_splits, _separator)
                    /\ cpc' = "merge"
                    /\ mj' = f.g0
                    /\ mlo' = f.g0
                    /\ mtotal' = 0
                    /\ UNCHANGED <<stack, chunks>>
               ELSE IF more /\ f.sep = 4
                 THEN \* no separator is left: final_chunks.append(s)
                      /\ chunks' = Append(chunks, s)
                      /\ stack' = SetTop([f EXCEPT !.i = @ + 1, !.g0 = f.i + 1])
                      /\ UNCHANGED <<cpc, mj, mlo, mtotal>>
                 ELSE IF more
                   THEN \* self._split_text(s, new_separators)
                        /\ stack' = Append(stack, Call(s[1], s[2], f.sep + 1))
                        /\ UNCHANGED <<cpc, mj, mlo, mtotal, chunks>>
                   ELSE \* return final_chunks
                        /\ IF Len(stack) = 1
                             THEN stack' = <<>> /\ cpc' = "done"
                             ELSE LET g == stack[Len(stack) - 1]
                                  IN  /\ stack' = [SubSeq(stack, 1, Len(stack) - 1)
                                                     EXCEPT ![Len(stack) - 1] =
                                                       [g EXCEPT !.i = @ + 1, !.g0 = g.i + 1]]
                                      /\ UNCHANGED cpc
                        /\ UNCHANGED <<mj, mlo, mtotal, chunks>>
    /\ UNCHANGED text
    /\ UNCHANGED <<sessionVars, serviceVars>>

\* One turn of the loop "for d in splits" of _merge_splits, up to the while
\* loop, or the end of the function.  current_doc is the splits mlo..mj-1.
merge_splits_step ==
    /\ cpc = "merge"
    /\ LET f == Top
           d == SplitAt(f, mj)
       IN  IF mj >= f.i
             THEN \* the last doc; back in _split_text, _good_splits = []
                  /\ chunks' = Emit(chunks, join_docs(f, mlo, mj - 1))
                  /\ stack' = SetTop([f EXCEPT !.g0 = f.i])
                  /\ cpc' = "split"
                  /\ UNCHANGED <<mj, mlo, mtotal>>
             ELSE IF mtotal + PieceLen(d) > chunk_size /\ mlo < mj
               THEN /\ chunks' = Emit(chunks, join_docs(f, mlo, mj - 1))
                    /\ cpc' = "pop"
                    /\ UNCHANGED <<stack, mj, mlo, mtotal>>
               ELSE \* current_doc.append(d)
                    /\ mj' = mj + 1
                    /\ mtotal' = mtotal + PieceLen(d)
                    /\ UNCHANGED <<cpc, stack, mlo, chunks>>
    /\ UNCHANGED text
    /\ UNCHANGED <<sessionVars, serviceVars>>

\* One turn of the while loop of _merge_splits, or its exit and
\* current_doc.append(d).
merge_splits_pop ==
    /\ cpc = "pop"
    /\ LET f == Top
           d == SplitAt(f, mj)
       IN  IF KeepPopping(mtotal, PieceLen(d))
             THEN /\ mtotal' = mtotal - PieceLen(SplitAt(f, mlo))
                  /\ mlo' = mlo + 1
                  /\ UNCHANGED <<cpc, mj>>
             ELSE /\ mj' = mj + 1
                  /\ mtotal' = mtotal + PieceLen(d)
                  /\ cpc' = "merge"
                  /\ UNCHANGED mlo
    /\ UNCHANGED <<text, stack, chunks>>
    /\ UNCHANGED <<sessionVars, serviceVars>>

InitChunk ==
    /\ pc = [s \in Sessions |-> "idle"]
    /\ conversation = [s \in Sessions |-> 0]
    /\ chat_history = [s \in Sessions |-> <<>>]
    /\ processed = [s \in Sessions |-> FALSE]
    /\ memory = [s \in Sessions |-> <<>>]
    /\ pending = [s \in Sessions |-> NoQuestion]
    /\ ingests = [s \in Sessions |-> 0]
    /\ asks = [s \in Sessions |-> 0]
    /\ ingestsOk = [s \in Sessions |-> 0]
    /\ last = [s \in Sessions |-> NoOp]
    /\ indexExists = FALSE
    /\ indexReady = FALSE
    /\ createCalls = 0
    /\ createOk = 0
    /\ earlyWrites = 0
    /\ text \in Texts
    /\ cpc = "start"
    /\ stack = <<>>
    /\ mj = 0
    /\ mlo = 0
    /\ mtotal = 0
    /\ chunks = <<>>

NextChunk ==
    \/ split_text
    \/ split_text_step
    \/ merge_splits_step
    \/ merge_splits_pop

SpecChunk == InitChunk /\ [][NextChunk]_vars

\* ------------------------------------------------------------ specification

\* Lines 19-25, and the service as the first session finds it.
Init ==
    /\ pc = [s \in Sessions |-> "idle"]
    /\ conversation = [s \in Sessions |-> 0]
    /\ chat_history = [s \in Sessions |-> <<>>]
    /\ processed = [s \in Sessions |-> FALSE]
    /\ memory = [s \in Sessions |-> <<>>]
    /\ pending = [s \in Sessions |-> NoQuestion]
    /\ ingests = [s \in Sessions |-> 0]
    /\ asks = [s \in Sessions |-> 0]
    /\ ingestsOk = [s \in Sessions |-> 0]
    /\ last = [s \in Sessions |-> NoOp]
    /\ indexExists \in BOOLEAN
    /\ indexReady = indexExists
    /\ createCalls = 0
    /\ createOk = 0
    /\ earlyWrites = 0
    /\ text = <<>>
    /\ cpc = "off"
    /\ stack = <<>>
    /\ mj = 0
    /\ mlo = 0
    /\ mtotal = 0
    /\ chunks = <<>>

Next ==
    \/ \E s \in Sessions, keys \in BOOLEAN, docs \in BOOLEAN : ProcessDocuments(s, keys, docs)
    \/ \E s \in Sessions, ok \in BOOLEAN : get_pdf_text(s, ok)
    \/ \E s \in Sessions, ok \in BOOLEAN, stop \in BOOLEAN : get_text_chunks(s, ok, stop)
    \/ \E s \in Sessions, ok \in BOOLEAN : list_indexes(s, ok)
    \/ \E s \in Sessions, ok \in BOOLEAN : create_index(s, ok)
    \/ \E s \in Sessions : sleep(s)
    \/ IndexBecomesReady
    \/ \E s \in Sessions, ok \in BOOLEAN : from_texts(s, ok)
    \/ \E s \in Sessions, ok \in BOOLEAN : get_conversation_chain(s, ok)
    \/ \E s \in Sessions, q \in Questions, ok \in BOOLEAN : Ask(s, q, ok)
    \/ \E s \in Sessions, q \in Questions : SubmitWhileRunning(s, q)
    \/ \E s \in Sessions, ok \in BOOLEAN : RunPending(s, ok)

Spec == Init /\ [][Next]_vars

\* Successive ingests: "Process Documents" is clicked only while no session
\* is processing documents, so that no two index bootstraps overlap.
ProcessDocumentsAlone(s, keys, docs) ==
    /\ \A t \in Sessions : pc[t] = "idle"
    /\ ProcessDocuments(s, keys, docs)

NextSeq ==
    \/ \E s \in Sessions, keys \in BOOLEAN, docs \in BOOLEAN : ProcessDocumentsAlone(s, keys, docs)
    \/ \E s \in Sessions, ok \in BOOLEAN : get_pdf_text(s, ok)
    \/ \E s \in Sessions, ok \in BOOLEAN, stop \in BOOLEAN : get_text_chunks(s, ok, stop)
    \/ \E s \in Sessions, ok \in BOOLEAN : list_indexes(s, ok)
    \/ \E s \in Sessions, ok \in BOOLEAN : create_index(s, ok)
    \/ \E s \in Sessions : sleep(s)
    \/ IndexBecomesReady
    \/ \E s \in Sessions, ok \in BOOLEAN : from_texts(s, ok)
    \/ \E s \in Sessions, ok \in BOOLEAN : get_conversation_chain(s, ok)
    \/ \E s \in Sessions, q \in Questions, ok \in BOOLEAN : Ask(s, q, ok)
    \/ \E s \in Sessions, q \in Questions : SubmitWhileRunning(s, q)
    \/ \E s \in Sessions, ok \in BOOLEAN : RunPending(s, ok)

SpecSeq == Init /\ [][NextSeq]_vars

\* ------------------------------------------------------------------ claims

\* An external call that failed and whose failure reached the user.
SurfacedFailure(s) ==
    \/ last[s].op = "ask" /\ last[s].result = "GenerationFailed"
    \/ last[s].op = "ingest" /\ last[s].result = "Failed"
         /\ last[s].cause \in {"list", "create", "AlreadyExists", "upsert"}

\* C1: while no ingest of the session has completed successfully, every ask
\* ends with the NotReady warning: the chain is not called (no attempt), no
\* turn is recorded in the history or in a memory, and nothing is answered.
C1_AskBeforeIngestNotReady ==
    \A s \in Sessions :
        ingestsOk[s] = 0 =>
            /\ chat_history[s] = <<>>
            /\ memory[s] = <<>>
            /\ last[s].op = "ask" =>
                   last[s].result = "NotReady" /\ last[s].attempts = 0

\* C1 witness: a session whose only ingest failed has asked twice.
C1_Witness ==
    \E s \in Sessions :
        /\ ingestsOk[s] = 0
        /\ ingests[s] >= 1
        /\ asks[s] = 2
        /\ pc[s] = "idle"
        /\ last[s].op = "ask"
        /\ last[s].result = "NotReady"

\* C2: every ask of a ready session either fails, and then the failure is
\* shown and neither the history nor the chain's memory changes, or
\* succeeds, and then each grows by exactly the turn asked.
C2_FailedAskLeavesHistory ==
    [][\A s \in Sessions :
          (asks'[s] = asks[s] + 1 /\ conversation[s] # 0) =>
              \/ /\ last'[s].result = "GenerationFailed"
                 /\ chat_history'[s] = chat_history[s]
                 /\ memory'[s] = memory[s]
              \/ /\ last'[s].result = "Answered"
                 /\ Len(chat_history'[s]) = Len(chat_history[s]) + 1
                 /\ Len(memory'[s]) = Len(memory[s]) + 1
                 /\ SubSeq(chat_history'[s], 1, Len(chat_history[s])) = chat_history[s]]_vars

\* C2 witness: a ready session with one recorded turn whose next ask failed.
C2_Witness ==
    \E s \in Sessions :
        /\ conversation[s] # 0
        /\ asks[s] = 2
        /\ Len(chat_history[s]) = 1
        /\ last[s].op = "ask"
        /\ last[s].result = "GenerationFailed"

\* C3: an ask submitted while a re-ingest of the session was in flight, and
\* handled while the session still holds the chain of an earlier ingest, is
\* rejected with Busy: it is not run against that previous chain.
C3_AskDuringIngestIsBusy ==
    \A s \in Sessions :
        (/\ pc[s] = "idle"
         /\ last[s].op = "ask"
         /\ last[s].inflight
         /\ conversation[s] # 0
         /\ conversation[s] < ingests[s])
            => (last[s].result = "Busy" /\ last[s].attempts = 0)

\* C4: however the bootstraps of the sessions interleave, the index is
\* created once and no ingest fails because the index already exists.
C4_ConcurrentBootstrapSucceeds ==
    /\ createOk <= 1
    /\ \A s \in Sessions :
           ~(last[s].op = "ingest" /\ last[s].cause = "AlreadyExists")

\* C5 as stated: over successive ingests create_index is invoked once.
C5_CreateInvokedOnce ==
    createCalls <= 1

\* C5 as amended: over successive ingests create_index is invoked only
\* while the index is absent, and creates the index at most once: once it
\* exists, no later ingest invokes create_index.
C5_CreateSucceedsOnce ==
    /\ createOk <= 1
    /\ createOk = 1 => indexExists
    /\ \A s \in Sessions :
           /\ pc[s] = "create" => ~indexExists
           /\ last[s].cause # "AlreadyExists"

\* C5 witness: create_index failed in one ingest, created the index in the
\* next, and that ingest completed.
C5_Witness ==
    /\ createCalls = 2
    /\ createOk = 1
    /\ \E s \in Sessions : last[s].op = "ingest" /\ last[s].result = "Ok"

\* C6: no chunk write is issued before the index is ready.
C6_NoWriteBeforeReady ==
    earlyWrites = 0

\* C7: the memory given to the generator holds exactly the turns answered in
\* the session, oldest first.
C7_MemoryHoldsSessionTurns ==
    \A s \in Sessions : memory[s] = chat_history[s]

C10_ProcessedIffConversation ==
    /\ [](\A s \in Sessions :
            pc[s] = "idle" => (processed[s] <=> conversation[s] # 0))
    /\ [][\A s \in Sessions :
            (pc[s] # "idle" /\ pc'[s] = "idle") =>
                /\ chat_history'[s] = chat_history[s]
                /\ IF ingestsOk'[s] = ingestsOk[s] + 1
                     THEN conversation'[s] = ingests[s] /\ processed'[s]
                     ELSE /\ conversation'[s] = conversation[s]
                          /\ processed'[s] = processed[s]]_vars

\* C10 witness: a ready session whose second ingest failed is still ready,
\* with the chain of its first ingest.
C10_Witness ==
    \E s \in Sessions :
        /\ pc[s] = "idle"
        /\ ingests[s] = 2
        /\ last[s].op = "ingest"
        /\ last[s].result = "Failed"
        /\ conversation[s] = 1
        /\ processed[s]

====
